---- MODULE Spec2Model ----
(***************************************************************************)
(* Charity_Advisor backend: the round-robin selector, the Every.org        *)
(* enrichment cache, the SQLite catalog gateway and the two endpoints      *)
(* (/recommend, /featured) of backend/app.py and backend/catalog.py.       *)
(*                                                                         *)
(* Python values: strings are TLA+ strings, None is the reserved string    *)
(* None below, a dict with insertion order is a sequence of records        *)
(* [code, charities], a list is a sequence.                                *)
(***************************************************************************)
EXTENDS Integers, Sequences, FiniteSets, TLC

VARIABLES
    charities_by_code,  \* round_robin_select: the argument charities_by_code
    limit,              \* round_robin_select: the argument limit
    rr,                 \* round_robin_select: its locals and position
    db,                 \* data/charities.db: the rows of table charities, by rowid
    queries,            \* the SQL queries the last operation ran, in order
    pool_call,          \* the last call of fetch_random_pool_for_deciles
    EVERY_CACHE,        \* app.py _EVERY_CACHE: ein -> Optional[detail]
    api_key,            \* os.getenv("EVERY_API_KEY")
    today,              \* datetime.date.today() as the integer YYYYMMDD
    net,                \* the eins the last operation sent to Every.org, in order
    fetch_call,         \* the last direct call of fetch_every_nonprofit_detail
    threads,            \* the request threads inside fetch_every_nonprofit_detail
    resp                \* the last endpoint call: its request and its response

selvars == <<charities_by_code, limit, rr>>
catvars == <<db, queries, pool_call>>
appvars == <<EVERY_CACHE, api_key, today, net, fetch_call, threads, resp>>
vars == <<charities_by_code, limit, rr, db, queries, pool_call,
          EVERY_CACHE, api_key, today, net, fetch_call, threads, resp>>

-----------------------------------------------------------------------------
(* Bounds of the model *)

\* longest candidate list of the first category of the pools
MaxLen == 4
\* longest candidate list of the second category of the pools
MaxLenB == 2
\* largest limit handed to round_robin_select
MaxLimit == 4
\* most rows of a query result for which every order of ORDER BY RANDOM() is drawn
MaxPerm == 3
\* largest pool_size handed to fetch_random_pool_for_deciles on its own
MaxPool == 2
\* rows of the large catalog whose details are in the cache from the start
MaxFill == 16

-----------------------------------------------------------------------------
(* Python values *)

None == "<None>"

\* Python truthiness of an Optional[str]
Truthy(v) == v # None /\ v # ""

\* a or b
Or(a, b) == IF Truthy(a) THEN a ELSE b

\* str(v), as an f-string formats it
Str(v) == IF v = None THEN "None" ELSE v

Min(a, b) == IF a <= b THEN a ELSE b

Max(a, b) == IF a >= b THEN a ELSE b

Range(s) == {s[i] : i \in 1..Len(s)}

\* the sequences over S of length at most n that hold no element twice
InjSeqs(S, n) ==
    {s \in UNION {[1..k -> S] : k \in 0..n} :
        \A i, j \in DOMAIN s : i # j => s[i] # s[j]}

-----------------------------------------------------------------------------
(* Dicts with insertion order *)

\* d.get(code, [])
DictGet(d, code) ==
    IF \E i \in 1..Len(d) : d[i].code = code
    THEN d[CHOOSE i \in 1..Len(d) : d[i].code = code].charities
    ELSE <<>>

\* d.setdefault(code, []).append(item)
DictAppend(d, code, item) ==
    IF \E i \in 1..Len(d) : d[i].code = code
    THEN [i \in 1..Len(d) |->
            IF d[i].code = code
            THEN [d[i] EXCEPT !.charities = Append(@, item)]
            ELSE d[i]]
    ELSE Append(d, [code |-> code, charities |-> <<item>>])

-----------------------------------------------------------------------------
(* round_robin_select *)

MAX_CHARITIES == 15

\* the normalized charity dict of group_charities_by_decile
Charity(name, ein, profileUrl, nteeCode, location) ==
    [name |-> name, ein |-> ein, profileUrl |-> profileUrl, websiteUrl |-> None,
     nteeCode |-> nteeCode, location |-> location, description |-> None]

\* unique_id = charity.get("ein") or charity.get("profileUrl") or f"{name}-{code}"
UniqueId(charity, code) ==
    Or(charity.ein, Or(charity.profileUrl, Str(charity.name) \o "-" \o code))

\* codes = [code for code, charities in charities_by_code.items() if charities]
NonEmptyCodes(cbc) ==
    LET F[i \in 0..Len(cbc)] ==
            IF i = 0 THEN <<>>
            ELSE IF cbc[i].charities # <<>> THEN Append(F[i - 1], cbc[i].code)
            ELSE F[i - 1]
    IN  F[Len(cbc)]

\* the inner while loop: from cursor idx, the next candidate that is not seen
RECURSIVE ScanFrom(_, _, _, _)
ScanFromSeenNotSkipped(charities, code, idx, seen) ==
    IF idx < Len(charities)
    THEN [found |-> TRUE, idx |-> idx + 1, charity |-> charities[idx + 1],
          unique_id |-> UniqueId(charities[idx + 1], code)]
    ELSE [found |-> FALSE, idx |-> idx]

ScanFrom(charities, code, idx, seen) ==
    IF idx < Len(charities)
    THEN LET charity == charities[idx + 1]
             unique_id == UniqueId(charity, code)
         IN  IF ~Truthy(unique_id) \/ unique_id \in seen
             THEN ScanFrom(charities, code, idx + 1, seen)
             ELSE [found |-> TRUE, idx |-> idx + 1, charity |-> charity,
                   unique_id |-> unique_id]
    ELSE [found |-> FALSE, idx |-> idx]

\* the locals at entry of the function
SelEntry ==
    [pc |-> "begin", selected |-> <<>>, seen_ids |-> {}, codes |-> <<>>,
     indices |-> <<>>, progressed |-> FALSE, pos |-> 0]

\* lines 335-341
SelBegin(cbc, s) ==
    LET codes == NonEmptyCodes(cbc)
    IN  [s EXCEPT !.codes = codes,
                  !.indices = [i \in 1..Len(codes) |-> 0],
                  !.pc = IF codes = <<>> THEN "done" ELSE "while"]

\* the test of the outer while loop with <= for <
SelWhileInclusive(lim, s) ==
    IF Len(s.selected) <= lim
    THEN [s EXCEPT !.progressed = FALSE, !.pos = 1, !.pc = "for"]
    ELSE [s EXCEPT !.pc = "done"]

\* lines 343-344: the test of the outer while loop
SelWhile(lim, s) ==
    IF Len(s.selected) < lim
    THEN [s EXCEPT !.progressed = FALSE, !.pos = 1, !.pc = "for"]
    ELSE [s EXCEPT !.pc = "done"]

\* the step of the for loop after one category's turn
SelAdvance(lim, s) ==
    IF Len(s.selected) >= lim \/ s.pos = Len(s.codes)
    THEN [s EXCEPT !.pc = "endround"]
    ELSE [s EXCEPT !.pos = @ + 1]

\* one category's turn with the break of line 359 missing: the inner loop goes
\* on to the end of the category's list
RECURSIVE TakeAllFrom(_, _, _, _)
TakeAllFrom(cbc, code, idx, s) ==
    LET r == ScanFrom(DictGet(cbc, code), code, idx, s.seen_ids)
    IN  IF r.found
        THEN TakeAllFrom(cbc, code, r.idx,
                 [s EXCEPT !.seen_ids = @ \cup {r.unique_id},
                           !.selected = Append(@, r.charity),
                           !.indices[s.pos] = r.idx,
                           !.progressed = TRUE])
        ELSE s

SelVisitNoBreak(cbc, lim, s) ==
    SelAdvance(lim, TakeAllFrom(cbc, s.codes[s.pos], s.indices[s.pos], s))

\* one category's turn with the candidate put at the front of selected
SelVisitPrepend(cbc, lim, s) ==
    LET code == s.codes[s.pos]
        r == ScanFrom(DictGet(cbc, code), code, s.indices[s.pos], s.seen_ids)
        t == IF r.found
             THEN [s EXCEPT !.seen_ids = @ \cup {r.unique_id},
                            !.selected = <<r.charity>> \o @,
                            !.indices[s.pos] = r.idx,
                            !.progressed = TRUE]
             ELSE s
    IN  SelAdvance(lim, t)

\* lines 345-362: one category's turn in the for loop
SelVisit(cbc, lim, s) ==
    LET code == s.codes[s.pos]
        r == ScanFrom(DictGet(cbc, code), code, s.indices[s.pos], s.seen_ids)
        t == IF r.found
             THEN [s EXCEPT !.seen_ids = @ \cup {r.unique_id},
                            !.selected = Append(@, r.charity),
                            !.indices[s.pos] = r.idx,
                            !.progressed = TRUE]
             ELSE s
    IN  SelAdvance(lim, t)

\* lines 364-365 with the break left out
SelEndRoundNoBreak(s) == [s EXCEPT !.pc = "while"]

\* lines 364-365
SelEndRound(s) ==
    IF ~s.progressed THEN [s EXCEPT !.pc = "done"] ELSE [s EXCEPT !.pc = "while"]

SelStep(cbc, lim, s) ==
    CASE s.pc = "begin" -> SelBegin(cbc, s)
      [] s.pc = "while" -> SelWhile(lim, s)
      [] s.pc = "for" -> SelVisit(cbc, lim, s)
      [] s.pc = "endround" -> SelEndRound(s)
      [] OTHER -> s

\* the locals when the function returns (line 367)
RECURSIVE SelRun(_, _, _)
SelRun(cbc, lim, s) ==
    IF s.pc = "done" THEN s ELSE SelRun(cbc, lim, SelStep(cbc, lim, s))

round_robin_select(cbc, lim) == SelRun(cbc, lim, SelEntry).selected

-----------------------------------------------------------------------------
(* Strings: str.strip, str.upper, str.lower, str.isalpha on the strings used *)

\* s.strip()
Strip(s) ==
    CASE s = " d20 " -> "d20"
      [] s = " ca" -> "ca"
      [] s = "d0 " -> "d0"
      [] s = "  " -> ""
      [] OTHER -> s

\* s.upper()
Upper(s) ==
    CASE s = "d20" -> "D20"
      [] s = "ca" -> "CA"
      [] s = "d0" -> "D0"
      [] s = "any" -> "ANY"
      [] s = "Any" -> "ANY"
      [] s = "California" -> "CALIFORNIA"
      [] OTHER -> s

\* s.lower()
Lower(s) ==
    CASE s = "Any" -> "any"
      [] s = "NY" -> "ny"
      [] s = "TX" -> "tx"
      [] s = "ZZ" -> "zz"
      [] s = "C1" -> "c1"
      [] s = "California" -> "california"
      [] OTHER -> s

\* s.isalpha()
IsAlpha(s) == s \notin {"", "C1", "d0 ", " ca", "  ", " d20 "}

-----------------------------------------------------------------------------
(* catalog.py *)

CharityRow(ein, name, city, state, ntee_code) ==
    [ein |-> ein, name |-> name, city |-> city, state |-> state,
     ntee_code |-> ntee_code, ntee_major |-> "D"]

\* _normalize_deciles
normalize_deciles(deciles) ==
    LET F[i \in 0..Len(deciles)] ==
            IF i = 0 THEN <<>>
            ELSE IF Strip(deciles[i]) # ""
                 THEN Append(F[i - 1], Upper(Strip(deciles[i])))
                 ELSE F[i - 1]
    IN  F[Len(deciles)]

\* _normalize_state
catalog_normalize_state(state) ==
    IF ~Truthy(state) THEN None
    ELSE IF Upper(Strip(state)) = "" \/ Upper(Strip(state)) = "ANY" THEN None
    ELSE Upper(Strip(state))

\* the WHERE clause with the IN list left out of the query
MatchingRowsAnyCode(table, cleaned, state) ==
    {i \in 1..Len(table) : state # None => table[i].state = state}

\* the rowids the WHERE clause keeps: ntee_code IN (...) [AND state = ?]
MatchingRows(table, cleaned, state) ==
    {i \in 1..Len(table) :
        /\ table[i].ntee_code \in Range(cleaned)
        /\ (state # None => table[i].state = state)}

\* the rowids of R in ascending order
RECURSIVE Ascending(_)
Ascending(R) ==
    IF R = {} THEN <<>>
    ELSE LET m == CHOOSE i \in R : \A j \in R : i <= j
         IN  <<m>> \o Ascending(R \ {m})

Reverse(s) == [i \in 1..Len(s) |-> s[Len(s) + 1 - i]]

\* ORDER BY RANDOM() LIMIT lim: the orders the store may return the rowids R in;
\* every order up to MaxPerm rows, rowid order and its reverse above that
RandomOrders(R, lim) ==
    LET n == Min(lim, Cardinality(R))
    IN  IF Cardinality(R) <= MaxPerm
        THEN {o \in InjSeqs(R, n) : Len(o) = n}
        ELSE {SubSeq(Ascending(R), 1, n), SubSeq(Reverse(Ascending(R)), 1, n)}

\* _rows_to_charities
rows_to_charities(table, order) == [i \in 1..Len(order) |-> table[order[i]]]

\* one SQL query as the log keeps it
Query(cleaned, state, lim) == [deciles |-> cleaned, state |-> state, limit |-> lim]

\* fetch_by_deciles with the state query's rows never returned: the unfiltered
\* query always runs after it
FetchByDecilesAlwaysFallsBack(table, deciles, state, lim) ==
    LET cleaned == normalize_deciles(deciles)
        normalized_state == catalog_normalize_state(state)
        before == IF normalized_state # None
                  THEN <<Query(cleaned, normalized_state, lim)>> ELSE <<>>
    IN  IF cleaned = <<>> THEN {[rows |-> <<>>, queries |-> <<>>]}
        ELSE {[rows |-> rows_to_charities(table, o),
               queries |-> Append(before, Query(cleaned, None, lim))] :
                 o \in RandomOrders(MatchingRows(table, cleaned, None), lim)}

\* fetch_by_deciles: the results it may return, each with the queries it ran
fetch_by_deciles(table, deciles, state, lim) ==
    LET cleaned == normalize_deciles(deciles)
        normalized_state == catalog_normalize_state(state)
        filtered == MatchingRows(table, cleaned, normalized_state)
        every == MatchingRows(table, cleaned, None)
        fallback(before) ==
            {[rows |-> rows_to_charities(table, o),
              queries |-> Append(before, Query(cleaned, None, lim))] :
                o \in RandomOrders(every, lim)}
    IN  IF cleaned = <<>> THEN {[rows |-> <<>>, queries |-> <<>>]}
        ELSE IF normalized_state # None
        THEN LET q == Query(cleaned, normalized_state, lim)
             IN  UNION {IF o # <<>>
                        THEN {[rows |-> rows_to_charities(table, o), queries |-> <<q>>]}
                        ELSE fallback(<<q>>) :
                          o \in RandomOrders(filtered, lim)}
        ELSE fallback(<<>>)

\* random.Random(seed).shuffle of a list of n items, as positions of the input
\* (CPython's Mersenne Twister, tabulated)
ShuffleTable ==
    [seed \in {20240101, 20240102} |->
        IF seed = 20240101
        THEN << <<1>>,
                <<2, 1>>,
                <<3, 2, 1>>,
                <<1, 3, 4, 2>>,
                <<1, 3, 5, 4, 2>>,
                <<1, 3, 6, 5, 4, 2>>,
                <<1, 7, 3, 5, 6, 4, 2>>,
                <<2, 1, 5, 3, 6, 7, 8, 4>>,
                <<2, 1, 6, 3, 5, 7, 9, 8, 4>>,
                <<2, 1, 9, 3, 6, 5, 10, 7, 8, 4>>,
                <<2, 1, 11, 3, 6, 10, 5, 9, 7, 8, 4>>,
                <<12, 3, 9, 1, 6, 2, 11, 5, 10, 7, 8, 4>>,
                <<13, 3, 10, 1, 6, 2, 12, 5, 9, 11, 7, 8, 4>>,
                <<14, 3, 11, 1, 6, 2, 13, 5, 9, 10, 12, 7, 8, 4>>,
                <<11, 15, 6, 14, 1, 2, 12, 3, 5, 9, 10, 13, 7, 8, 4>>,
                <<11, 4, 6, 15, 1, 2, 13, 3, 5, 12, 9, 10, 14, 16, 8, 7>>,
                <<2, 14, 8, 11, 6, 12, 1, 4, 3, 5, 13, 9, 10, 16, 17, 15, 7>>,
                <<2, 17, 8, 11, 6, 16, 1, 4, 3, 12, 5, 14, 9, 10, 18, 13, 15, 7>>,
                <<2, 8, 14, 6, 12, 19, 11, 1, 4, 3, 16, 5, 18, 9, 10, 17, 13, 15, 7>>,
                <<14, 8, 17, 12, 2, 20, 19, 11, 9, 5, 6, 1, 4, 3, 16, 10, 18, 13, 15, 7>> >>
        ELSE << <<1>>,
                <<1, 2>>,
                <<3, 1, 2>>,
                <<3, 2, 1, 4>>,
                <<1, 5, 3, 2, 4>>,
                <<1, 5, 3, 6, 2, 4>>,
                <<1, 6, 3, 7, 5, 2, 4>>,
                <<1, 7, 3, 6, 4, 5, 2, 8>>,
                <<1, 2, 9, 7, 4, 6, 5, 3, 8>>,
                <<2, 10, 1, 9, 4, 5, 6, 7, 3, 8>>,
                <<2, 11, 1, 10, 4, 5, 6, 7, 9, 3, 8>>,
                <<4, 12, 6, 1, 2, 11, 5, 10, 7, 9, 3, 8>>,
                <<11, 13, 12, 4, 5, 1, 2, 6, 10, 7, 9, 3, 8>>,
                <<12, 14, 13, 4, 5, 1, 2, 6, 11, 10, 7, 9, 3, 8>>,
                <<13, 15, 14, 4, 5, 1, 2, 6, 11, 10, 7, 12, 9, 3, 8>>,
                <<2, 14, 8, 4, 5, 1, 11, 15, 6, 13, 10, 7, 12, 9, 3, 16>>,
                <<2, 15, 8, 4, 17, 1, 11, 3, 6, 13, 10, 14, 7, 12, 9, 5, 16>>,
                <<1, 18, 17, 15, 4, 9, 11, 8, 2, 3, 6, 14, 7, 10, 12, 13, 5, 16>>,
                <<1, 19, 18, 15, 4, 9, 11, 8, 2, 3, 6, 14, 7, 10, 12, 13, 17, 5, 16>>,
                <<1, 11, 12, 9, 14, 19, 20, 7, 4, 8, 15, 2, 3, 6, 10, 18, 13, 17, 5, 16>> >>]

\* an Optional[int] seed: <<>> is None, <<n>> is n
NoSeed == <<>>

Shuffle(seed, s) ==
    IF s = <<>> THEN s
    ELSE [i \in 1..Len(s) |-> s[ShuffleTable[seed][Len(s)][i]]]

\* the slice of line 168 left out
TakeAll(s, n) == s

\* s[:n]
Take(s, n) ==
    IF n >= 0 THEN SubSeq(s, 1, Min(Len(s), n))
    ELSE SubSeq(s, 1, Max(Len(s) + n, 0))

\* fetch_random_pool_for_deciles: the results it may return, with the queries
fetch_random_pool_for_deciles(table, deciles, state, pool_size, seed) ==
    IF pool_size <= 0 THEN {[rows |-> <<>>, queries |-> <<>>]}
    ELSE LET large_limit == Max(pool_size * 3, pool_size)
         IN  {[rows |-> Take(IF seed # NoSeed THEN Shuffle(seed[1], o.rows)
                             ELSE o.rows,
                             pool_size),
               queries |-> o.queries] :
                 o \in fetch_by_deciles(table, deciles, state, large_limit)}


-----------------------------------------------------------------------------
(* app.py: the Every.org lookup and its cache *)

\* an Optional[Dict]: <<>> is None, <<d>> is the dict d
NoDetail == <<>>

\* the keys of a nonprofit object that enrich_charities_with_every reads
Detail(profileUrl, url, websiteUrl, website, description, mission, location, locationName, nteeCode) ==
    [profileUrl |-> profileUrl, profile |-> None, url |-> url,
     websiteUrl |-> websiteUrl, website |-> website,
     description |-> description, mission |-> mission,
     location |-> location, locationName |-> locationName, nteeCode |-> nteeCode]

DetailFull ==
    Detail("https://www.every.org/alpha", None, "https://alpha.org", None,
           "Feeds people", None, "Los Angeles, CA", None, "K30")

DetailAlt ==
    Detail(None, "https://www.every.org/beta", None, "https://beta.org",
           "", "Shelter", None, None, None)

Details == {DetailFull, DetailAlt}

\* what requests.get and resp.json() can give: exc is a RequestException; json
\* is the decoded body's type ("invalid": not JSON); data is payload["data"];
\* nonprofit is data["nonprofit"]; detail is its content when it is an object
Response(exc, status, json, data, nonprofit, detail) ==
    [exc |-> exc, status |-> status, json |-> json, data |-> data,
     nonprofit |-> nonprofit, detail |-> detail]

Found(d) == Response(FALSE, 200, "object", "object", "object", d)

FailureResponses ==
    { Response(TRUE, 0, "invalid", "absent", "absent", DetailAlt),
      Response(FALSE, 404, "object", "absent", "absent", DetailAlt),
      Response(FALSE, 200, "invalid", "absent", "absent", DetailAlt),
      Response(FALSE, 200, "array", "absent", "absent", DetailAlt),
      Response(FALSE, 200, "object", "null", "absent", DetailAlt),
      Response(FALSE, 200, "object", "absent", "absent", DetailAlt),
      Response(FALSE, 200, "object", "object", "absent", DetailAlt),
      Response(FALSE, 200, "object", "object", "empty", DetailAlt),
      Response(FALSE, 200, "object", "object", "array", DetailAlt) }

Responses == FailureResponses \cup {Found(d) : d \in Details}

\* _EVERY_CACHE[ein] = value
CachePut(cache, ein, value) ==
    [e \in DOMAIN cache \cup {ein} |-> IF e = ein THEN value ELSE cache[e]]

\* _EVERY_CACHE.get(ein)
CacheGet(cache, ein) == IF ein \in DOMAIN cache THEN cache[ein] ELSE NoDetail

\* get_api_key: "" when the key is there, else the error it raises
get_api_key(key) == IF ~Truthy(key) THEN "HTTPException 500" ELSE ""

FetchOutcome(result, raised, cache, calls) ==
    [result |-> result, raised |-> raised, cache |-> cache, calls |-> calls]

\* the request sent a second time when the first try fails
ResolveResponseRetrying(ein, cache, r) ==
    IF r.exc \/ r.status >= 400
    THEN FetchOutcome(NoDetail, "", CachePut(cache, ein, NoDetail), 2)
    ELSE FetchOutcome(<<r.detail>>, "", CachePut(cache, ein, <<r.detail>>), 1)

\* lines 218-240: what the function makes of the response to its one request
ResolveResponse(ein, cache, r) ==
    IF r.exc THEN FetchOutcome(NoDetail, "", CachePut(cache, ein, NoDetail), 1)
    ELSE IF r.status >= 400
    THEN FetchOutcome(NoDetail, "", CachePut(cache, ein, NoDetail), 1)
    ELSE IF r.json = "invalid"
    THEN FetchOutcome(NoDetail, "", CachePut(cache, ein, NoDetail), 1)
    ELSE IF r.json # "object" \/ r.data = "null"
    THEN FetchOutcome(NoDetail, "AttributeError", cache, 1)
    ELSE IF r.data = "absent" \/ r.nonprofit # "object"
    THEN FetchOutcome(NoDetail, "", CachePut(cache, ein, NoDetail), 1)
    ELSE FetchOutcome(<<r.detail>>, "", CachePut(cache, ein, <<r.detail>>), 1)

\* the function with get_api_key() of line 214 not raising
FetchWithoutKeyCheck(ein, cache, key, r) ==
    IF ~Truthy(ein) THEN FetchOutcome(NoDetail, "", cache, 0)
    ELSE IF CacheGet(cache, ein) # NoDetail
    THEN FetchOutcome(CacheGet(cache, ein), "", cache, 0)
    ELSE ResolveResponse(ein, cache, r)

\* the function with the cache test of lines 210-212 left out
FetchIgnoringCache(ein, cache, key, r) ==
    IF ~Truthy(ein) THEN FetchOutcome(NoDetail, "", cache, 0)
    ELSE IF get_api_key(key) # ""
    THEN FetchOutcome(NoDetail, get_api_key(key), cache, 0)
    ELSE ResolveResponse(ein, cache, r)

\* lines 207-214: the call gets as far as get_api_key()
ReadsKey(ein, cache) == Truthy(ein) /\ CacheGet(cache, ein) = NoDetail

\* fetch_every_nonprofit_detail(ein), r the response if it sends its request
fetch_every_nonprofit_detail(ein, cache, key, r) ==
    IF ~Truthy(ein) THEN FetchOutcome(NoDetail, "", cache, 0)
    ELSE IF CacheGet(cache, ein) # NoDetail
    THEN FetchOutcome(CacheGet(cache, ein), "", cache, 0)
    ELSE IF get_api_key(key) # ""
    THEN FetchOutcome(NoDetail, get_api_key(key), cache, 0)
    ELSE ResolveResponse(ein, cache, r)

\* the merge with the fallback to the charity's own location and category code
\* and the tests of lines 262-270 left out: the detail's values are written as
\* they are
MergeDetailNoFallback(charity, detail) ==
    [charity EXCEPT
        !.profileUrl = Or(detail.profileUrl, Or(detail.profile, detail.url)),
        !.websiteUrl = Or(detail.websiteUrl, detail.website),
        !.description = Or(detail.description, detail.mission),
        !.location = Or(detail.location, detail.locationName),
        !.nteeCode = detail.nteeCode]

\* lines 256-271: the detail merged into one charity
MergeDetail(charity, detail) ==
    LET profile_url == Or(detail.profileUrl, Or(detail.profile, detail.url))
        website_url == Or(detail.websiteUrl, detail.website)
        description == Or(detail.description, detail.mission)
        location == Or(detail.location, Or(detail.locationName, charity.location))
        ntee_code == Or(detail.nteeCode, charity.nteeCode)
    IN  [charity EXCEPT
            !.profileUrl = IF Truthy(profile_url) THEN profile_url ELSE @,
            !.websiteUrl = IF Truthy(website_url) THEN website_url ELSE @,
            !.description = IF Truthy(description) THEN description ELSE @,
            !.location = IF Truthy(location) THEN location ELSE @,
            !.nteeCode = IF Truthy(ntee_code) THEN ntee_code ELSE @]

\* the charities of a list that can make enrichment send a request: those with
\* an ein and no detail in the cache
CanMiss(charities, cache) ==
    {i \in 1..Len(charities) :
        Truthy(charities[i].ein) /\ CacheGet(cache, charities[i].ein) = NoDetail}

\* enrich_charities_with_every from charity i on; e is the state of the loop,
\* rs[k] the response to the k-th request of the call
RECURSIVE EnrichFrom(_, _, _, _)
EnrichFrom(i, e, key, rs) ==
    IF i > Len(e.charities) \/ e.raised # "" THEN e
    ELSE LET charity == e.charities[i]
             r == IF Len(e.net) < Len(rs) THEN rs[Len(e.net) + 1]
                  ELSE Response(TRUE, 0, "invalid", "absent", "absent", DetailAlt)
             f == fetch_every_nonprofit_detail(charity.ein, e.cache, key, r)
             merged == IF f.raised = "" /\ f.result # NoDetail
                       THEN [e.charities EXCEPT ![i] = MergeDetail(@, f.result[1])]
                       ELSE e.charities
         IN  EnrichFrom(i + 1,
                 [charities |-> merged, cache |-> f.cache, raised |-> f.raised,
                  net |-> IF f.calls = 1 THEN Append(e.net, charity.ein) ELSE e.net],
                 key, rs)

\* enrich_charities_with_every: the outcomes it may have
enrich_charities_with_every(charities, cache, key) ==
    {EnrichFrom(1, [charities |-> charities, cache |-> cache, raised |-> "",
                    net |-> <<>>], key, rs) :
        rs \in [1..Cardinality(CanMiss(charities, cache)) -> Responses]}

-----------------------------------------------------------------------------
(* app.py: the endpoints *)

\* the entries of GENERIC_TO_NTEE the model keeps
GENERIC_TO_NTEE ==
    [code \in {"D0", "B0", "E0", "P0", "C0", "N0"} |->
        CASE code = "D0" -> <<"D20", "D40", "D60", "D61">>
          [] code = "B0" -> <<"B20", "B21", "B24", "B25", "B28">>
          [] code = "E0" -> <<"E20", "E21", "E22", "E24">>
          [] code = "P0" -> <<"P30", "P31", "P32", "P33", "P40", "P42", "P43",
                              "P44", "P45", "P46">>
          [] code = "C0" -> <<"C20", "C27", "C35">>
          [] code = "N0" -> <<"N20", "N30", "N31", "N32">>]

\* GENERIC_TO_NTEE.get(code), <<>> for None
MappedDeciles(code) ==
    IF code \in DOMAIN GENERIC_TO_NTEE THEN GENERIC_TO_NTEE[code] ELSE <<>>

\* normalize_state
normalize_state(location) ==
    LET loc == Strip(IF location = None THEN "" ELSE location)
    IN  IF loc = "" THEN "any"
        ELSE IF Lower(loc) = "any" THEN "any"
        ELSE IF Len(loc) = 2 /\ IsAlpha(loc) THEN Upper(loc)
        ELSE "any"

\* the normalized dict of one catalog row (lines 182-198 and 306-323)
Normalized(row) ==
    LET city == Or(row.city, "")
        state == Or(row.state, "")
        location_str == IF city # "" /\ state # "" THEN city \o ", " \o state
                        ELSE IF state # "" THEN state
                        ELSE None
    IN  Charity(Or(row.name, "Unknown"), row.ein, None, row.ntee_code, location_str)

\* group_charities_by_decile
group_charities_by_decile(rows) ==
    LET F[i \in 0..Len(rows)] ==
            IF i = 0 THEN <<>>
            ELSE IF ~Truthy(rows[i].ntee_code) THEN F[i - 1]
            ELSE DictAppend(F[i - 1], rows[i].ntee_code, Normalized(rows[i]))
    IN  F[Len(rows)]

\* the normalized list of get_daily_featured_pool (lines 300-326)
NormalizedList(rows) ==
    LET F[i \in 0..Len(rows)] ==
            IF i = 0 THEN <<>>
            ELSE IF ~Truthy(rows[i].ntee_code) THEN F[i - 1]
            ELSE Append(F[i - 1], Normalized(rows[i]))
    IN  F[Len(rows)]

\* list(dict.fromkeys(s))
RECURSIVE DedupInto(_, _)
DedupInto(acc, s) ==
    IF s = <<>> THEN acc
    ELSE DedupInto(IF Head(s) \in Range(acc) THEN acc ELSE Append(acc, Head(s)),
                   Tail(s))

Dedup(s) == DedupInto(<<>>, s)

\* the filter of line 447 left out
WithWebsiteUnfiltered(s) == s

\* [x for x in s if x.get("websiteUrl")]
WithWebsite(s) ==
    LET F[i \in 0..Len(s)] ==
            IF i = 0 THEN <<>>
            ELSE IF Truthy(s[i].websiteUrl) THEN Append(F[i - 1], s[i])
            ELSE F[i - 1]
    IN  F[Len(s)]

SurveyRequest(generic_code, location) ==
    [generic_code |-> generic_code, location |-> location]

\* what one call of an endpoint leaves behind: the response (status, and the
\* body's fields), the queries and requests it made, the cache, the selection
EndpointOutcome(status, error, generic_code, location, ntee_codes, charities, q, n, cache, cbc, sel) ==
    [status |-> status, error |-> error, generic_code |-> generic_code,
     location |-> location, ntee_codes |-> ntee_codes, charities |-> charities,
     queries |-> q, net |-> n, cache |-> cache, cbc |-> cbc, sel |-> sel]

\* recommend_charities from line 419 on with the whole pool enriched, not the
\* selection
RecommendSelectedEnrichPool(generic_code, location, target_deciles, pool, cache, key, charities_by_decile, sel) ==
    IF sel.selected = <<>>
    THEN {EndpointOutcome(404, "No charities could be selected after grouping.",
              generic_code, location, target_deciles, <<>>,
              pool.queries, <<>>, cache, charities_by_decile, sel)}
    ELSE {IF e.raised # ""
          THEN EndpointOutcome(500, e.raised, generic_code, location,
                   target_deciles, <<>>, pool.queries, e.net, e.cache,
                   charities_by_decile, sel)
          ELSE EndpointOutcome(200, "", generic_code, location,
                   target_deciles, sel.selected, pool.queries, e.net, e.cache,
                   charities_by_decile, sel) :
            e \in enrich_charities_with_every(NormalizedList(pool.rows), cache, key)}

\* recommend_charities from line 419 on, for a selection made
RecommendSelected(generic_code, location, target_deciles, pool, cache, key, charities_by_decile, sel) ==
    IF sel.selected = <<>>
    THEN {EndpointOutcome(404, "No charities could be selected after grouping.",
              generic_code, location, target_deciles, <<>>,
              pool.queries, <<>>, cache, charities_by_decile, sel)}
    ELSE {IF e.raised # ""
          THEN EndpointOutcome(500, e.raised, generic_code, location,
                   target_deciles, <<>>, pool.queries, e.net, e.cache,
                   charities_by_decile, sel)
          ELSE EndpointOutcome(200, "", generic_code, location,
                   target_deciles, e.charities, pool.queries, e.net, e.cache,
                   charities_by_decile, sel) :
            e \in enrich_charities_with_every(sel.selected, cache, key)}

\* recommend_charities from line 413 on: the grouping, then the selection
RecommendGrouped(generic_code, location, target_deciles, pool, cache, key, charities_by_decile) ==
    UNION {RecommendSelected(generic_code, location, target_deciles, pool, cache,
                             key, charities_by_decile, sel) :
             sel \in {SelRun(charities_by_decile, MAX_CHARITIES, SelEntry)}}

RecommendPool(generic_code, location, target_deciles, pool, cache, key) ==
    UNION {RecommendGrouped(generic_code, location, target_deciles, pool, cache,
                            key, charities_by_decile) :
             charities_by_decile \in {group_charities_by_decile(pool.rows)}}

\* recommend_charities from line 396 on with the check of lines 407-411 turned
\* into a success with no charities
RecommendMappedEmptyOk(generic_code, location, target_deciles, table, cache, key) ==
    LET state_code == normalize_state(location)
        pools == fetch_random_pool_for_deciles(table, target_deciles,
                     IF state_code = "any" THEN None ELSE state_code,
                     MAX_CHARITIES * 4, NoSeed)
    IN  UNION {IF pool.rows = <<>>
               THEN {EndpointOutcome(200, "", generic_code, location,
                         target_deciles, <<>>, pool.queries, <<>>, cache, <<>>,
                         SelEntry)}
               ELSE RecommendPool(generic_code, location, target_deciles, pool,
                                  cache, key) :
                 pool \in pools}

\* recommend_charities from line 396 on, for a mapped code
RecommendMapped(generic_code, location, target_deciles, table, cache, key) ==
    LET state_code == normalize_state(location)
        pool_size == MAX_CHARITIES * 4
        pools == fetch_random_pool_for_deciles(table, target_deciles,
                     IF state_code = "any" THEN None ELSE state_code,
                     pool_size, NoSeed)
    IN  UNION {IF pool.rows = <<>>
               THEN {EndpointOutcome(404,
                         "No charities found in the database for these NTEE codes and location.",
                         generic_code, location, target_deciles, <<>>,
                         pool.queries, <<>>, cache, <<>>, SelEntry)}
               ELSE RecommendPool(generic_code, location, target_deciles, pool,
                                  cache, key) :
                 pool \in pools}

\* recommend_charities with the two checks of lines 389-394 left out
RecommendUnchecked(payload, table, cache, key) ==
    LET generic_code == Upper(Strip(payload.generic_code))
    IN  RecommendMapped(generic_code, Strip(payload.location),
                        MappedDeciles(generic_code), table, cache, key)

\* recommend_charities: the outcomes one call may have
recommend_charities(payload, table, cache, key) ==
    LET generic_code == Upper(Strip(payload.generic_code))
        location == Strip(payload.location)
        target_deciles == MappedDeciles(generic_code)
    IN  IF generic_code = ""
        THEN {EndpointOutcome(400, "generic_code is required.", generic_code,
                  location, <<>>, <<>>, <<>>, <<>>, cache, <<>>, SelEntry)}
        ELSE IF target_deciles = <<>>
        THEN {EndpointOutcome(400, "Unknown generic code: " \o generic_code, generic_code,
                  location, <<>>, <<>>, <<>>, <<>>, cache, <<>>, SelEntry)}
        ELSE RecommendMapped(generic_code, location, target_deciles, table,
                             cache, key)

\* the deciles of get_daily_featured_pool (lines 285-289)
FeaturedDeciles ==
    LET sample_generic_codes == <<"D0", "B0", "E0", "P0", "C0", "N0">>
        F[i \in 0..Len(sample_generic_codes)] ==
            IF i = 0 THEN <<>>
            ELSE F[i - 1] \o MappedDeciles(sample_generic_codes[i])
    IN  Dedup(F[Len(sample_generic_codes)])

\* get_daily_featured_pool: the pools it may return, with the queries
get_daily_featured_pool(table, pool_size) ==
    IF FeaturedDeciles = <<>> THEN {[rows |-> <<>>, queries |-> <<>>]}
    ELSE {[rows |-> NormalizedList(o.rows), queries |-> o.queries] :
            o \in fetch_random_pool_for_deciles(table, FeaturedDeciles, None,
                                                pool_size, NoSeed)}

FEATURED_COUNT == 6

FEATURED_POOL_SIZE == 200

\* the body of /featured has a count beside the list
WithCount(o, n) ==
    [f \in DOMAIN o \cup {"count"} |-> IF f = "count" THEN n ELSE o[f]]

\* lines 454-458: "count": len(featured)
FeaturedBody(o) == WithCount(o, Len(o.charities))

\* get_featured_charities: the outcomes one call may have
get_featured_charities(date, table, cache, key) ==
    UNION {IF pool.rows = <<>>
           THEN {WithCount(EndpointOutcome(200, "", "", "", <<>>, <<>>,
                               pool.queries, <<>>, cache, <<>>, SelEntry), 0)}
           ELSE {IF e.raised # ""
                 THEN EndpointOutcome(500, e.raised, "", "", <<>>, <<>>,
                          pool.queries, e.net, e.cache, <<>>, SelEntry)
                 ELSE FeaturedBody(EndpointOutcome(200, "", "", "", <<>>,
                          Take(Shuffle(date, WithWebsite(e.charities)),
                               FEATURED_COUNT),
                          pool.queries, e.net, e.cache, <<>>, SelEntry)) :
                   e \in enrich_charities_with_every(pool.rows, cache, key)} :
             pool \in get_daily_featured_pool(table, FEATURED_POOL_SIZE)}

-----------------------------------------------------------------------------
(* The selector on its own: bounded pools and limits *)

D20 == "D20"
D40 == "D40"

\* candidates before they are tagged with their category
RawCandidates ==
    { [name |-> "Alpha",      ein |-> "11", profileUrl |-> None],
      [name |-> "Alpha Fund", ein |-> "11", profileUrl |-> None],
      [name |-> "Beta",       ein |-> "22", profileUrl |-> None],
      [name |-> "Gamma",      ein |-> None, profileUrl |-> "https://www.every.org/gamma"],
      [name |-> "Delta",      ein |-> "",   profileUrl |-> None] }

Tag(raw, code) == Charity(raw.name, raw.ein, raw.profileUrl, code, None)

TagAll(raws, code) == [i \in 1..Len(raws) |-> Tag(raws[i], code)]

Pools(la, lb) ==
    << [code |-> D20, charities |-> TagAll(la, D20)],
       [code |-> D40, charities |-> TagAll(lb, D40)] >>

\* the catalog is not touched by the selector
CatalogIdle ==
    /\ db = <<>>
    /\ queries = <<>>
    /\ pool_call = [called |-> FALSE]

NoFetchCall == [called |-> FALSE]

\* no request thread is inside fetch_every_nonprofit_detail
NoThreads == <<>>

NoResp ==
    [op |-> "none", request |-> SurveyRequest("", ""), date |-> 0, status |-> 0,
     error |-> "", generic_code |-> "", location |-> "", ntee_codes |-> <<>>,
     charities |-> <<>>, count |-> <<>>]

EmptyCache == [e \in {} |-> NoDetail]

\* no endpoint is called and nothing is looked up
AppIdle ==
    /\ EVERY_CACHE = EmptyCache
    /\ api_key = None
    /\ today = 20240101
    /\ net = <<>>
    /\ fetch_call = NoFetchCall
    /\ threads = NoThreads
    /\ resp = NoResp

InitSelect ==
    /\ CatalogIdle
    /\ AppIdle
    /\ \E la \in InjSeqs(RawCandidates, MaxLen),
          lb \in InjSeqs(RawCandidates, MaxLenB) :
            charities_by_code = Pools(la, lb)
    /\ limit \in -1..MaxLimit
    /\ rr = SelEntry

\* a call of round_robin_select(charities_by_code, limit), to its return
Select ==
    /\ rr.pc = "begin"
    /\ rr' = SelRun(charities_by_code, limit, rr)
    /\ UNCHANGED <<charities_by_code, limit>>
    /\ UNCHANGED catvars
    /\ UNCHANGED appvars

NextSelect == Select

SpecSelect == InitSelect /\ [][NextSelect]_vars

-----------------------------------------------------------------------------
(* Properties of round_robin_select *)

SelDone == rr.pc = "done"

\* the dedup identity of a result entry: it sits in the category it is tagged with
EntryId(charity) == UniqueId(charity, charity.nteeCode)

\* the dedup identities of all candidates of the pools
AllIds(cbc) ==
    {UniqueId(cbc[i].charities[j], cbc[i].code) :
        <<i, j>> \in {x \in (1..Len(cbc)) \X (1..(MaxLen + MaxLenB + 2)) :
                        x[2] <= Len(cbc[x[1]].charities)}}

TotalCandidates(cbc) ==
    LET F[i \in 0..Len(cbc)] ==
            IF i = 0 THEN 0 ELSE F[i - 1] + Len(cbc[i].charities)
    IN  F[Len(cbc)]

IdsOfPrefix(sel, k) == {EntryId(sel[p]) : p \in 1..k}

CountOf(sel, code, k) == Cardinality({p \in 1..k : sel[p].nteeCode = code})

CeilDiv(k, n) == (k + n - 1) \div n

\* the 1-based position in charities of the first candidate not in seen, else 0
FirstUnseen(cbc, code, seen) ==
    LET l == DictGet(cbc, code)
        J == {j \in 1..Len(l) : UniqueId(l[j], code) \notin seen}
    IN  IF J = {} THEN 0 ELSE CHOOSE j \in J : \A h \in J : j <= h

HasUnseen(cbc, code, seen) == FirstUnseen(cbc, code, seen) # 0

\* the position in codes of the category whose turn yields the next entry after
\* the category at position i took one (i = 0: at the start), else 0
NextTurn(cbc, codes, seen, i) ==
    LET n == Len(codes)
        at(t) == ((i + t - 1) % n) + 1
        T == {t \in 1..n : HasUnseen(cbc, codes[at(t)], seen)}
    IN  IF T = {} THEN 0 ELSE at(CHOOSE t \in T : \A u \in T : t <= u)

CodePos(codes, code) == CHOOSE i \in 1..Len(codes) : codes[i] = code

\* C2: for a non-empty pools mapping and limit > 0 the result has exactly
\* min(limit, number of distinct dedup identities of the candidates) entries.
C2_ResultLength ==
    (SelDone /\ charities_by_code # <<>> /\ limit > 0)
        => Len(rr.selected)
             = Min(limit, Cardinality(AllIds(charities_by_code)))

\* C2 witness: a finished call whose pools hold more candidates than identities
\* and fewer identities than limit
C2_Witness ==
    /\ SelDone /\ limit > 0
    /\ Cardinality(AllIds(charities_by_code)) < limit
    /\ Cardinality(AllIds(charities_by_code)) < TotalCandidates(charities_by_code)
    /\ Len(rr.selected) = Cardinality(AllIds(charities_by_code))
    /\ Len(rr.selected) >= 2

\* C3: no two entries of a result share a dedup identity; of two candidates with
\* the same identifier at most one is in the result.
C3_NoDuplicateIdentity ==
    SelDone =>
        \A p, q \in 1..Len(rr.selected) :
            p # q => /\ EntryId(rr.selected[p]) # EntryId(rr.selected[q])
                     /\ (Truthy(rr.selected[p].ein)
                            => rr.selected[p].ein # rr.selected[q].ein)

\* C3 witness: the same identifier sits in both categories and in the result
C3_Witness ==
    /\ SelDone
    /\ Len(rr.selected) >= 2
    /\ \E i, j \in 1..Len(charities_by_code) :
         /\ i # j
         /\ \E a \in Range(charities_by_code[i].charities),
               b \in Range(charities_by_code[j].charities) :
                /\ a.ein = "11" /\ b.ein = "11"
                /\ \E c \in Range(charities_by_code[i].charities) :
                      c.ein = "11" /\ c # a
    /\ \E p \in 1..Len(rr.selected) : rr.selected[p].ein = "11"

\* C4 as stated: in every prefix of length k no category has more than
\* ceil(k / n) + 1 entries, n the number of categories with a candidate.
C4_FairnessBound ==
    SelDone =>
        \A k \in 1..Len(rr.selected) :
            \A i \in 1..Len(rr.codes) :
                CountOf(rr.selected, rr.codes[i], k)
                    <= CeilDiv(k, Len(rr.codes)) + 1

\* C4 amended: in every prefix of length k a category has at most
\* ceil(k / n) + 1 entries unless another category has run out: the bound holds
\* for a category whenever each other category still has a candidate whose
\* identity is not in the prefix.
C4_FairnessWhileOthersLast ==
    SelDone =>
        \A k \in 1..Len(rr.selected) :
            \A i \in 1..Len(rr.codes) :
                (\A j \in 1..Len(rr.codes) :
                    j # i => HasUnseen(charities_by_code, rr.codes[j],
                                       IdsOfPrefix(rr.selected, k)))
                => CountOf(rr.selected, rr.codes[i], k)
                      <= CeilDiv(k, Len(rr.codes)) + 1

\* C4 witness: a result with a prefix of length 3 fed by both categories, after
\* which neither category is exhausted
C4_Witness ==
    /\ SelDone
    /\ Len(rr.codes) = 2
    /\ Len(rr.selected) >= 4
    /\ \A i \in 1..2 :
         /\ HasUnseen(charities_by_code, rr.codes[i], IdsOfPrefix(rr.selected, 3))
         /\ CountOf(rr.selected, rr.codes[i], 3) >= 1

ExamplePools ==
    Pools(<< [name |-> "Alpha", ein |-> "11", profileUrl |-> None],
             [name |-> "Beta", ein |-> "22", profileUrl |-> None],
             [name |-> "Gamma", ein |-> None,
              profileUrl |-> "https://www.every.org/gamma"] >>,
          << [name |-> "Delta", ein |-> "", profileUrl |-> None] >>)

\* C5: the result is the round-robin interleaving: each entry is the first
\* not-yet-seen candidate of the next category, in the mapping's order, that
\* still has one; the result ends only at limit or when no category has one;
\* pools {A: [a1,a2,a3], B: [b1]} with limit 3 give [a1, b1, a2].
C5_RoundRobinOrder ==
    SelDone =>
        /\ \A p \in 1..Len(rr.selected) :
             LET seen == IdsOfPrefix(rr.selected, p - 1)
                 prev == IF p = 1 THEN 0
                         ELSE CodePos(rr.codes, rr.selected[p - 1].nteeCode)
                 t == NextTurn(charities_by_code, rr.codes, seen, prev)
             IN  /\ t # 0
                 /\ rr.selected[p]
                      = DictGet(charities_by_code, rr.codes[t])
                            [FirstUnseen(charities_by_code, rr.codes[t], seen)]
        /\ (Len(rr.selected) < limit /\ rr.codes # <<>>)
             => \A i \in 1..Len(rr.codes) :
                   ~HasUnseen(charities_by_code, rr.codes[i],
                              IdsOfPrefix(rr.selected, Len(rr.selected)))
        /\ (charities_by_code = ExamplePools /\ limit = 3)
             => rr.selected = << Tag([name |-> "Alpha", ein |-> "11",
                                      profileUrl |-> None], D20),
                                 Tag([name |-> "Delta", ein |-> "",
                                      profileUrl |-> None], D40),
                                 Tag([name |-> "Beta", ein |-> "22",
                                      profileUrl |-> None], D20) >>

\* C5 witness: the example call has returned, the second category exhausted
C5_Witness ==
    /\ SelDone
    /\ charities_by_code = ExamplePools
    /\ limit = 3
    /\ Len(rr.selected) = 3
    /\ rr.selected[2].nteeCode = D40

\* C19: the result is empty when limit <= 0, whatever the pools hold, and when
\* no category has a candidate, whatever limit is.
C19_EmptyResult ==
    (SelDone /\ (limit <= 0 \/ TotalCandidates(charities_by_code) = 0))
        => rr.selected = <<>>

\* C19 witness: pools with candidates in both categories and limit 0
C19_Witness ==
    /\ SelDone
    /\ limit = 0
    /\ \A i \in 1..Len(charities_by_code) : charities_by_code[i].charities # <<>>
    /\ rr.selected = <<>>
    /\ rr.seen_ids = {}

\* the positions of an entry in the candidate list of the category it is tagged with
PositionsOf(cbc, charity) ==
    {j \in 1..Len(DictGet(cbc, charity.nteeCode)) :
        DictGet(cbc, charity.nteeCode)[j] = charity}

\* C21: every entry of the result is a candidate of the pools, two entries of
\* one category stand in the result in the order of that category's candidate
\* list, and the call leaves the pools as they were.
C21_CandidatesInOrder ==
    /\ [](SelDone =>
            /\ \A p \in 1..Len(rr.selected) :
                  PositionsOf(charities_by_code, rr.selected[p]) # {}
            /\ \A p, q \in 1..Len(rr.selected) :
                  (p < q /\ rr.selected[p].nteeCode = rr.selected[q].nteeCode)
                     => \A j \in PositionsOf(charities_by_code, rr.selected[p]),
                           k \in PositionsOf(charities_by_code, rr.selected[q]) :
                              j < k)
    /\ [][charities_by_code' = charities_by_code]_vars

\* C21 witness: a category gave its first and its third candidate, the second
\* one skipped as a duplicate
C21_Witness ==
    /\ SelDone
    /\ \E p, q \in 1..Len(rr.selected) :
          /\ p < q
          /\ rr.selected[p].nteeCode = D20
          /\ PositionsOf(charities_by_code, rr.selected[p]) = {1}
          /\ PositionsOf(charities_by_code, rr.selected[q]) = {3}
          /\ rr.selected[q].nteeCode = D20
          /\ UniqueId(DictGet(charities_by_code, D20)[2], D20)
               = UniqueId(DictGet(charities_by_code, D20)[1], D20)

-----------------------------------------------------------------------------
(* The selector step by step: each test and each turn of its loops is a step *)

\* the candidates drawn for the stepwise runs: two share an identity, one has
\* neither ein nor profile
StepCandidates ==
    {c \in RawCandidates : c.name \in {"Alpha", "Alpha Fund", "Delta"}}

InitSelectSteps ==
    /\ CatalogIdle
    /\ AppIdle
    /\ \E la \in InjSeqs(StepCandidates, MaxLenB),
          lb \in InjSeqs(StepCandidates, MaxLenB) :
            charities_by_code = Pools(la, lb)
    /\ limit \in -1..MaxLimit
    /\ rr = SelEntry

SelectorFrame ==
    /\ UNCHANGED <<charities_by_code, limit>>
    /\ UNCHANGED catvars
    /\ UNCHANGED appvars

\* lines 335-341
StepBegin ==
    /\ rr.pc = "begin"
    /\ rr' = SelBegin(charities_by_code, rr)
    /\ SelectorFrame

\* lines 343-344
StepWhile ==
    /\ rr.pc = "while"
    /\ rr' = SelWhile(limit, rr)
    /\ SelectorFrame

\* lines 345-362
StepVisit ==
    /\ rr.pc = "for"
    /\ rr' = SelVisit(charities_by_code, limit, rr)
    /\ SelectorFrame

\* lines 364-365
StepEndRound ==
    /\ rr.pc = "endround"
    /\ rr' = SelEndRound(rr)
    /\ SelectorFrame

NextSelectSteps == StepBegin \/ StepWhile \/ StepVisit \/ StepEndRound

\* the call runs on: whenever a step is possible, one is taken
SpecSelectSteps ==
    InitSelectSteps /\ [][NextSelectSteps]_vars /\ WF_vars(NextSelectSteps)

\* C16: every call of round_robin_select returns; a round is followed by another
\* only if it appended a candidate, and a round that appended nothing ends the
\* loop whatever limit is.
C16_Terminates ==
    /\ <>SelDone
    /\ [][(rr.pc = "endround" /\ rr'.pc = "while") => rr.progressed]_vars
    /\ [][(rr.pc = "endround" /\ ~rr.progressed) => rr'.pc = "done"]_vars
    /\ [][(rr.pc = "for" /\ Len(rr'.selected) > Len(rr.selected)) => rr'.progressed]_vars

\* C16 witness: the call has returned after a round that appended nothing, with
\* candidates in the pools and limit not reached
C16_Witness ==
    /\ SelDone
    /\ ~rr.progressed
    /\ TotalCandidates(charities_by_code) > 0
    /\ rr.selected # <<>>
    /\ Len(rr.selected) < limit

-----------------------------------------------------------------------------
(* The catalog gateway on its own: bounded tables and arguments *)

RowAlpha == CharityRow("11", "Alpha", "Los Angeles", "CA", "D20")
RowBeta == CharityRow("22", "Beta", None, "NY", "D40")
RowGamma == CharityRow(None, "Gamma", None, None, "D20")
RowOmega == CharityRow("33", "Omega", "Austin", "TX", "X90")

SmallTable == <<RowAlpha, RowBeta, RowGamma, RowOmega>>

\* the tables drawn for the gateway: every one of them holds at most MaxPerm
\* rows of the categories asked for
GatewayTables ==
    {SmallTable, <<RowAlpha, RowOmega>>, <<RowBeta, RowGamma>>, <<>>}

GatewayDeciles == {<<"D20", "D40">>, <<" d20 ">>, <<"X90">>, <<"">>, <<>>}

GatewayStates == {None, "", "any", " ca", "NY", "ZZ"}

SelectorIdle ==
    /\ charities_by_code = <<>>
    /\ limit = 0
    /\ rr = SelEntry

InitCatalog ==
    /\ SelectorIdle
    /\ AppIdle
    /\ db \in GatewayTables
    /\ queries = <<>>
    /\ pool_call = [called |-> FALSE]

\* a call of fetch_random_pool_for_deciles(deciles, state, pool_size, seed)
FetchPool ==
    \E deciles \in GatewayDeciles, state \in GatewayStates,
       pool_size \in -1..MaxPool, seed \in {NoSeed, <<20240101>>} :
        \E o \in fetch_random_pool_for_deciles(db, deciles, state, pool_size, seed) :
            /\ pool_call' = [called |-> TRUE, deciles |-> deciles, state |-> state,
                             pool_size |-> pool_size, seed |-> seed, rows |-> o.rows]
            /\ queries' = o.queries
            /\ UNCHANGED db
            /\ UNCHANGED selvars
            /\ UNCHANGED appvars

NextCatalog == FetchPool

SpecCatalog == InitCatalog /\ [][NextCatalog]_vars

\* the rows of the table in the categories asked for, and those also in the region
CategoryRows ==
    {r \in Range(db) : r.ntee_code \in Range(normalize_deciles(pool_call.deciles))}

RegionRows ==
    {r \in CategoryRows : r.state = catalog_normalize_state(pool_call.state)}

\* the call asks for a region and reaches the store
RegionFilterApplied ==
    /\ pool_call.called
    /\ pool_call.pool_size > 0
    /\ normalize_deciles(pool_call.deciles) # <<>>
    /\ catalog_normalize_state(pool_call.state) # None

\* C9: with a region filter applied the rows are region rows whenever a row
\* matches categories and region (one query, the filtered one); they are rows of
\* the unfiltered query exactly when the filtered query is empty; the result is
\* empty only if no row matches the categories.
C9_RegionFallback ==
    RegionFilterApplied =>
        /\ queries # <<>>
        /\ queries[1].state = catalog_normalize_state(pool_call.state)
        /\ RegionRows # {}
             => /\ Len(queries) = 1
                /\ pool_call.rows # <<>>
                /\ Range(pool_call.rows) \subseteq RegionRows
        /\ RegionRows = {}
             => /\ Len(queries) = 2
                /\ queries[2].state = None
                /\ queries[2].deciles = queries[1].deciles
                /\ Range(pool_call.rows) \subseteq CategoryRows
                /\ (pool_call.rows = <<>> <=> CategoryRows = {})
        /\ (pool_call.rows = <<>> => CategoryRows = {})

\* C9 witness: no row of the region, rows of the category: the unfiltered rows
C9_Witness ==
    /\ RegionFilterApplied
    /\ pool_call.state = "ZZ"
    /\ RegionRows = {}
    /\ Len(queries) = 2
    /\ Len(pool_call.rows) = 2

\* C20: a call returns at most pool_size rows, and for pool_size <= 0 it returns
\* no row and runs no query.
C20_PoolSize ==
    pool_call.called =>
        /\ Len(pool_call.rows) <= Max(pool_call.pool_size, 0)
        /\ pool_call.pool_size <= 0 => (pool_call.rows = <<>> /\ queries = <<>>)

\* C20 witness: a seeded call that falls back to the unfiltered query and cuts
\* its rows down to pool_size
C20_Witness ==
    /\ RegionFilterApplied
    /\ pool_call.seed # NoSeed
    /\ Len(queries) = 2
    /\ Cardinality(CategoryRows) > pool_call.pool_size
    /\ Len(pool_call.rows) = pool_call.pool_size

-----------------------------------------------------------------------------
(* The service: /recommend, /featured and the lookup, on bounded catalogs *)

FillerEin(i) == "F" \o ToString(i)

FillerRow(i) ==
    CharityRow(FillerEin(i), "Filler " \o ToString(i), "Fresno", "CA",
               GENERIC_TO_NTEE["D0"][((i - 1) % Len(GENERIC_TO_NTEE["D0"])) + 1])

FillerDetail(i) ==
    Detail(None, None, "https://f" \o ToString(i) \o ".org", None, None, None,
           None, None, None)

\* the large catalog: more rows of D0 than MAX_CHARITIES
LargeTable == [i \in 1..MaxFill |-> FillerRow(i)] \o <<RowAlpha>>

\* the cache after earlier requests have found every filler row's detail
WarmCache ==
    [e \in {FillerEin(i) : i \in 1..MaxFill} |->
        <<FillerDetail(CHOOSE i \in 1..MaxFill : FillerEin(i) = e)>>]

\* a catalog with no row in any category that the mapping names
UnmappedTable == <<RowOmega>>

Days == DOMAIN ShuffleTable

Payloads ==
    {SurveyRequest(g, l) : g \in {"", "  ", "d0 ", "ZZ"}, l \in {"", "Any", " ca", "TX"}}

Init ==
    /\ SelectorIdle
    /\ \/ db = SmallTable /\ EVERY_CACHE = EmptyCache
       \/ db = LargeTable /\ EVERY_CACHE = WarmCache
       \/ db = UnmappedTable /\ EVERY_CACHE = EmptyCache
    /\ queries = <<>>
    /\ pool_call = [called |-> FALSE]
    /\ api_key \in {None, "secret"}
    /\ today = 20240101
    /\ net = <<>>
    /\ fetch_call = NoFetchCall
    /\ threads = NoThreads
    /\ resp = NoResp

\* what an endpoint call leaves in the state
Leaves(op, payload, out) ==
    /\ resp' = [op |-> op, request |-> payload, date |-> today,
                status |-> out.status, error |-> out.error,
                generic_code |-> out.generic_code, location |-> out.location,
                ntee_codes |-> out.ntee_codes, charities |-> out.charities,
                count |-> IF "count" \in DOMAIN out THEN <<out.count>> ELSE <<>>]
    /\ queries' = out.queries
    /\ net' = out.net
    /\ EVERY_CACHE' = out.cache
    /\ charities_by_code' = out.cbc
    /\ limit' = IF out.sel.pc = "done" THEN MAX_CHARITIES ELSE 0
    /\ rr' = out.sel
    /\ UNCHANGED <<db, pool_call, api_key, today, fetch_call, threads>>

\* POST /recommend
Recommend ==
    \E payload \in Payloads :
        \E out \in recommend_charities(payload, db, EVERY_CACHE, api_key) :
            Leaves("recommend", payload, out)

\* GET /featured
Featured ==
    \E out \in get_featured_charities(today, db, EVERY_CACHE, api_key) :
        Leaves("featured", SurveyRequest("", ""), out)

\* midnight
NextDay ==
    /\ today' \in Days
    /\ today' > today
    /\ UNCHANGED <<db, queries, pool_call, EVERY_CACHE, api_key, net, fetch_call, threads, resp>>
    /\ UNCHANGED selvars

Next == Recommend \/ Featured \/ NextDay

Spec == Init /\ [][Next]_vars

-----------------------------------------------------------------------------
(* Properties of the service *)

IsRecommend == resp.op = "recommend"

IsFeatured == resp.op = "featured"

\* the interest code of a request as recommend_charities reads it
CodeOf(request) == Upper(Strip(request.generic_code))

\* C6: with the API key configured, no failure of the external call makes
\* recommend or featured fail: neither endpoint ever answers with a server error.
C6_FailuresAbsorbed ==
    ((IsRecommend \/ IsFeatured) /\ Truthy(api_key)) => resp.status # 500

\* C7: a successful response of recommend has at most 15 charities, and the
\* category code of every entry of the response is one of the codes mapped from
\* the interest code.
C7_MappedCodes ==
    (IsRecommend /\ resp.status = 200) =>
        /\ Len(resp.charities) <= MAX_CHARITIES
        /\ \A i \in 1..Len(resp.charities) :
              resp.charities[i].nteeCode \in Range(resp.ntee_codes)

\* the category code that the detail cached for an identifier supplies, if any
SuppliedCodes(ein) ==
    IF Truthy(ein) /\ CacheGet(EVERY_CACHE, ein) # NoDetail
    THEN {CacheGet(EVERY_CACHE, ein)[1].nteeCode} \ {None, ""}
    ELSE {}

\* C7 as amended: a successful response of recommend has at most 15 charities,
\* one per selected entry; every selected entry's category code is one of the
\* codes mapped from the interest code, and in the response it is that code
\* unless the entry's enrichment detail supplies a non-empty category code, which
\* then replaces it.
C7_MappedCodesBeforeEnrichment ==
    (IsRecommend /\ resp.status = 200) =>
        /\ Len(resp.charities) <= MAX_CHARITIES
        /\ Len(resp.charities) = Len(rr.selected)
        /\ Range(resp.ntee_codes) = Range(MappedDeciles(CodeOf(resp.request)))
        /\ \A i \in 1..Len(resp.charities) :
              /\ rr.selected[i].nteeCode \in Range(resp.ntee_codes)
              /\ resp.charities[i].ein = rr.selected[i].ein
              /\ IF SuppliedCodes(resp.charities[i].ein) # {}
                 THEN resp.charities[i].nteeCode
                        \in SuppliedCodes(resp.charities[i].ein)
                 ELSE resp.charities[i].nteeCode = rr.selected[i].nteeCode

\* C7 witness: a full response of 15 charities cut from a larger pool, one of
\* them carrying the category code of its enrichment detail
C7_Witness ==
    /\ IsRecommend /\ resp.status = 200
    /\ Len(db) > MAX_CHARITIES
    /\ Len(resp.charities) = MAX_CHARITIES
    /\ \E i \in 1..Len(resp.charities) :
          /\ resp.charities[i].nteeCode = "K30"
          /\ rr.selected[i].nteeCode = "D20"

\* C8: two calls of featured in a row on the same date (the catalog never
\* changes) that both succeed return the same list of charities.
C8_SameDaySameList ==
    [][(/\ IsFeatured /\ resp.status = 200
        /\ resp'.op = "featured" /\ resp'.status = 200
        /\ resp'.date = resp.date)
          => resp'.charities = resp.charities]_vars

\* C10: a call of recommend whose interest code is empty after trimming or is
\* not in the mapping ends with status 400, and it issues no catalog query, runs
\* no selection, sends no enrichment request and leaves the cache as it was.
C10_ClientErrorTouchesNothing ==
    [][(resp'.op = "recommend" /\ CodeOf(resp'.request) \notin DOMAIN GENERIC_TO_NTEE)
          => /\ resp'.status = 400
             /\ resp'.charities = <<>>
             /\ queries' = <<>>
             /\ rr' = SelEntry /\ limit' = 0 /\ charities_by_code' = <<>>
             /\ net' = <<>>
             /\ EVERY_CACHE' = EVERY_CACHE]_vars

\* C10 witness: a blank interest code is refused while the cache holds entries
C10_Witness ==
    /\ IsRecommend
    /\ resp.request.generic_code = "  "
    /\ resp.status = 400
    /\ resp.error = "generic_code is required."
    /\ DOMAIN EVERY_CACHE = {"11", "22"}
    /\ queries = <<>> /\ net = <<>> /\ rr = SelEntry

\* the non-empty values a detail supplies for each field that enrichment merges
Supplied(d) ==
    [profileUrl |-> {d.profileUrl, d.profile, d.url} \ {None, ""},
     websiteUrl |-> {d.websiteUrl, d.website} \ {None, ""},
     description |-> {d.description, d.mission} \ {None, ""},
     location |-> {d.location, d.locationName} \ {None, ""},
     nteeCode |-> {d.nteeCode} \ {None, ""}]

MergedFields == {"profileUrl", "websiteUrl", "description", "location", "nteeCode"}

\* C12: in a successful response of recommend every entry differs from the
\* selected entry it was made from only in fields for which its detail supplies
\* a non-empty value, and there it carries a supplied value; an entry with no
\* identifier or with a negative detail is the selected entry unchanged.
C12_MergeContract ==
    (IsRecommend /\ resp.status = 200) =>
        /\ Len(resp.charities) = Len(rr.selected)
        /\ \A i \in 1..Len(resp.charities) :
              LET before == rr.selected[i]
                  after == resp.charities[i]
              IN  IF ~Truthy(before.ein) \/ CacheGet(EVERY_CACHE, before.ein) = NoDetail
                  THEN after = before
                  ELSE /\ after.name = before.name
                       /\ after.ein = before.ein
                       /\ \A f \in MergedFields :
                             LET vs == Supplied(CacheGet(EVERY_CACHE, before.ein)[1])[f]
                             IN  IF vs = {} THEN after[f] = before[f]
                                 ELSE after[f] \in vs

\* C12 witness: one entry takes profile, website and description from its
\* detail and keeps its location and category code, which the detail lacks;
\* another has no identifier
C12_Witness ==
    /\ IsRecommend /\ resp.status = 200
    /\ \E i \in 1..Len(resp.charities) :
          /\ Truthy(rr.selected[i].ein)
          /\ CacheGet(EVERY_CACHE, rr.selected[i].ein) = <<DetailAlt>>
          /\ resp.charities[i].websiteUrl = "https://beta.org"
          /\ resp.charities[i].description = "Shelter"
          /\ rr.selected[i].location # None
          /\ resp.charities[i].location = rr.selected[i].location
          /\ resp.charities[i].nteeCode = rr.selected[i].nteeCode
    /\ \E j \in 1..Len(resp.charities) :
          ~Truthy(rr.selected[j].ein) /\ resp.charities[j] = rr.selected[j]

\* the rows of the catalog in the categories mapped from the request's code
CandidateRows ==
    {r \in Range(db) : r.ntee_code \in Range(MappedDeciles(CodeOf(resp.request)))}

\* C13: for a mapped code recommend answers 404 whenever the catalog has no
\* row of the mapped categories or the selection is empty; a 404 comes with no
\* enrichment request and no charities; a 200 never has an empty list.
C13_NotFound ==
    (IsRecommend /\ CodeOf(resp.request) \in DOMAIN GENERIC_TO_NTEE) =>
        /\ CandidateRows = {} => resp.status = 404
        /\ (rr.pc = "done" /\ rr.selected = <<>>) => resp.status = 404
        /\ resp.status = 404 => (net = <<>> /\ resp.charities = <<>>)
        /\ resp.status = 200 => resp.charities # <<>>

\* C13 witness: no row of the region, then no row at all of the categories
C13_Witness ==
    /\ IsRecommend
    /\ CodeOf(resp.request) = "D0"
    /\ resp.request.location = " ca"
    /\ CandidateRows = {}
    /\ Len(queries) = 2
    /\ resp.status = 404
    /\ net = <<>>

\* the rows of the catalog in the categories that /featured draws from
FeaturedRows == {r \in Range(db) : r.ntee_code \in Range(FeaturedDeciles)}

\* C14: every entry of a /featured answer has a non-empty website link, there
\* are at most 6 entries, count is the length of the list, and with no row to
\* draw from the answer is count 0 with an empty list.
C14_FeaturedShape ==
    (IsFeatured /\ resp.status = 200) =>
        /\ \A i \in 1..Len(resp.charities) : Truthy(resp.charities[i].websiteUrl)
        /\ Len(resp.charities) <= FEATURED_COUNT
        /\ resp.count = <<Len(resp.charities)>>
        /\ FeaturedRows = {} => (resp.count = <<0>> /\ resp.charities = <<>>)

\* C14 witness: six entries cut from a pool in which more rows have a website
\* link and one row has none
C14_Witness ==
    /\ IsFeatured /\ resp.status = 200
    /\ Cardinality(FeaturedRows) > FEATURED_COUNT + 1
    /\ CacheGet(EVERY_CACHE, RowAlpha.ein) = NoDetail
    /\ resp.count = <<FEATURED_COUNT>>
    /\ Len(resp.charities) = FEATURED_COUNT

\* the identifiers the last endpoint call had to look up: those of the selected
\* entries (/recommend) or of the pool (/featured, every row of the categories
\* it draws from, as the catalog is smaller than the pool)
LookedUp ==
    IF IsRecommend THEN {rr.selected[i].ein : i \in 1..Len(rr.selected)} \ {None, ""}
    ELSE IF IsFeatured THEN {r.ein : r \in FeaturedRows} \ {None, ""}
    ELSE {}

\* C17: without the API key an endpoint call sends no request and leaves the
\* cache as it was; it fails with the error of get_api_key (status 500) whenever
\* it has to look up an identifier that has no detail in the cache, and fails
\* in no other way.
C17_MissingKeyFails ==
    [][(api_key = None /\ resp'.op \in {"recommend", "featured"}) =>
          /\ net' = <<>>
          /\ EVERY_CACHE' = EVERY_CACHE
          /\ resp'.status = 500 => resp'.error = get_api_key(None)
          /\ (\E ein \in LookedUp' : CacheGet(EVERY_CACHE, ein) = NoDetail)
                => (resp'.status = 500 /\ resp'.charities = <<>>)]_vars

\* C17 witness: /recommend fails on the one selected entry whose detail is not
\* in the cache
C17_Witness ==
    /\ api_key = None
    /\ IsRecommend
    /\ resp.status = 500
    /\ resp.error = get_api_key(None)
    /\ EVERY_CACHE = WarmCache
    /\ Len(rr.selected) = MAX_CHARITIES
    /\ \E i \in 1..Len(rr.selected) : rr.selected[i].ein = RowAlpha.ein
    /\ net = <<>>

\* the identifiers of the entries that the last call of /recommend selected
SelectedEins == {rr.selected[i].ein : i \in 1..Len(rr.selected)} \ {None, ""}

\* C22: a call of /recommend sends at most 15 enrichment requests, each for the
\* identifier of a selected entry (the identifiers of its response when it
\* succeeds), and it writes the cache for identifiers of selected entries only.
C22_EnrichmentOnSelection ==
    /\ [](IsRecommend =>
            /\ Len(net) <= MAX_CHARITIES
            /\ Range(net) \subseteq SelectedEins
            /\ resp.status = 200 =>
                  SelectedEins
                    = {resp.charities[i].ein : i \in 1..Len(resp.charities)} \ {None, ""})
    /\ [][resp'.op = "recommend" =>
            \A e \in DOMAIN EVERY_CACHE' :
                (e \notin DOMAIN EVERY_CACHE \/ EVERY_CACHE'[e] # EVERY_CACHE[e])
                   => e \in SelectedEins']_vars

\* C22 witness: a candidate of the pool whose detail is not in the cache is left
\* out of the 15 selected: no request is sent and its cache entry is not made
C22_Witness ==
    /\ IsRecommend /\ resp.status = 200
    /\ Truthy(api_key)
    /\ RowAlpha \in CandidateRows
    /\ Len(rr.selected) = MAX_CHARITIES
    /\ RowAlpha.ein \notin SelectedEins
    /\ RowAlpha.ein \notin DOMAIN EVERY_CACHE
    /\ net = <<>>

-----------------------------------------------------------------------------
(* The lookup on its own *)

LookupEins == {"", "11", "22"}

InitLookup ==
    /\ SelectorIdle
    /\ CatalogIdle
    /\ EVERY_CACHE = EmptyCache
    /\ api_key \in {None, "secret"}
    /\ today = 20240101
    /\ net = <<>>
    /\ fetch_call = NoFetchCall
    /\ threads = NoThreads
    /\ resp = NoResp

\* a call of fetch_every_nonprofit_detail(ein)
FetchDetail ==
    \E ein \in LookupEins, r \in Responses :
        LET f == fetch_every_nonprofit_detail(ein, EVERY_CACHE, api_key, r)
        IN  /\ fetch_call' = [called |-> TRUE, ein |-> ein,
                              was_resolved |-> ein \in DOMAIN EVERY_CACHE,
                              cached |-> CacheGet(EVERY_CACHE, ein),
                              key_read |-> ReadsKey(ein, EVERY_CACHE),
                              sent |-> [k \in 1..f.calls |-> r],
                              result |-> f.result, raised |-> f.raised]
            /\ EVERY_CACHE' = f.cache
            /\ net' = [k \in 1..f.calls |-> ein]
            /\ UNCHANGED <<db, queries, pool_call, api_key, today, threads, resp>>
            /\ UNCHANGED selvars

NextLookup == FetchDetail

SpecLookup == InitLookup /\ [][NextLookup]_vars

\* C1: a call for an identifier that an earlier call resolved to a negative
\* result returns the negative result without sending a request.
C1_NegativeNotRefetched ==
    (fetch_call.called /\ fetch_call.was_resolved /\ fetch_call.cached = NoDetail)
        => /\ fetch_call.sent = <<>>
           /\ fetch_call.result = NoDetail
           /\ fetch_call.raised = ""

\* C15: a call for an identifier whose cache entry holds a detail returns that
\* detail, sends no request, does not get as far as reading the API key, and
\* leaves the entry as it is.
C15_PositiveServedFromCache ==
    (fetch_call.called /\ fetch_call.cached # NoDetail) =>
        /\ fetch_call.result = fetch_call.cached
        /\ fetch_call.raised = ""
        /\ fetch_call.sent = <<>>
        /\ net = <<>>
        /\ ~fetch_call.key_read
        /\ CacheGet(EVERY_CACHE, fetch_call.ein) = fetch_call.cached

\* C15 witness: a later call for an identifier resolved to a detail
C15_Witness ==
    /\ fetch_call.called
    /\ fetch_call.ein = "22"
    /\ fetch_call.cached = <<DetailAlt>>
    /\ fetch_call.result = <<DetailAlt>>
    /\ fetch_call.sent = <<>>

-----------------------------------------------------------------------------
(* The lookup under concurrent requests: the endpoints are plain def handlers, *)
(* which run in a thread pool, and _EVERY_CACHE is shared without a lock       *)

\* request threads that can be inside fetch_every_nonprofit_detail at once
MaxThreads == 2

ConcurrentEins == {"11", "22"}

ThreadIdle == [pc |-> "idle", ein |-> "", result |-> NoDetail, raised |-> ""]

InitConcurrent ==
    /\ SelectorIdle
    /\ CatalogIdle
    /\ EVERY_CACHE = EmptyCache
    /\ api_key \in {None, "secret"}
    /\ today = 20240101
    /\ net = <<>>
    /\ fetch_call = NoFetchCall
    /\ threads = [t \in 1..MaxThreads |-> ThreadIdle]
    /\ resp = NoResp

\* lines 207-216: a thread calls the function and comes to its request, unless
\* the function returns or raises before
Enter(t) ==
    /\ threads[t].pc # "request"
    /\ \E ein \in ConcurrentEins :
          threads' = [threads EXCEPT ![t] =
              IF ~Truthy(ein)
              THEN [pc |-> "returned", ein |-> ein, result |-> NoDetail, raised |-> ""]
              ELSE IF CacheGet(EVERY_CACHE, ein) # NoDetail
              THEN [pc |-> "returned", ein |-> ein,
                    result |-> CacheGet(EVERY_CACHE, ein), raised |-> ""]
              ELSE IF get_api_key(api_key) # ""
              THEN [pc |-> "returned", ein |-> ein, result |-> NoDetail,
                    raised |-> get_api_key(api_key)]
              ELSE [pc |-> "request", ein |-> ein, result |-> NoDetail, raised |-> ""]]
    /\ UNCHANGED <<EVERY_CACHE, api_key, today, net, fetch_call, resp>>
    /\ UNCHANGED selvars
    /\ UNCHANGED catvars

\* lines 218-240: the thread's request is answered, the thread writes the cache
\* and returns
Receive(t) ==
    /\ threads[t].pc = "request"
    /\ \E r \in Responses :
          LET f == ResolveResponse(threads[t].ein, EVERY_CACHE, r)
          IN  /\ EVERY_CACHE' = f.cache
              /\ threads' = [threads EXCEPT ![t] =
                     [pc |-> "returned", ein |-> threads[t].ein,
                      result |-> f.result, raised |-> f.raised]]
    /\ UNCHANGED <<api_key, today, net, fetch_call, resp>>
    /\ UNCHANGED selvars
    /\ UNCHANGED catvars

NextConcurrent == \E t \in 1..MaxThreads : Enter(t) \/ Receive(t)

SpecConcurrent == InitConcurrent /\ [][NextConcurrent]_vars

\* C11: under concurrent calls an entry that holds a detail is never replaced
\* by another value, and a call for an identifier that has an entry never goes
\* on to a request.
C11_ResolvedIsFinal ==
    [][/\ \A e \in DOMAIN EVERY_CACHE :
             EVERY_CACHE[e] # NoDetail => EVERY_CACHE'[e] = EVERY_CACHE[e]
       /\ \A t \in 1..MaxThreads :
             (threads[t].pc # "request" /\ threads'[t].pc = "request")
                => threads'[t].ein \notin DOMAIN EVERY_CACHE]_vars

====
